---- MODULE Spec2Model ----
(***************************************************************************)
(* Booking-to-trip matching and trip lifecycle of the movenow platform.    *)
(*                                                                         *)
(* The database is modelled row by row.  Every request handler is a        *)
(* process whose steps are its database statements: the code runs under    *)
(* Django's autocommit, without transaction.atomic or select_for_update,   *)
(* so statements of different handlers interleave freely.  Model.save()    *)
(* without update_fields writes every column from the in-memory copy.      *)
(***************************************************************************)
EXTENDS Integers, Sequences, FiniteSets, TLC

----------------------------------------------------------------------------
(* Bounds *)

NumDrivers == 2
NumTripProcs == 2
NumConns == 2
NumFleet == 3
NumExtra == 2
MaxTime == 11
MaxPositions == 2
MaxTrips == 3

(* Program constants *)

BookingTTL == 10
RequestTTL == 2
DirectTTL == 30
SearchRadius == 10000
MaxCandidates == 10

NULL == -1

Drivers == 1..NumDrivers
TripProcs == 1..NumTripProcs
Conns == 1..NumConns

(* Instants at which the clock is observed: the creation of the booking    *)
(* and MaxTime, an instant after its expires_at.                           *)
Instants == {t \in {0, MaxTime} : t = 0 \/ t > BookingTTL}

(* Booking.estimated_fare in hundredths is abstracted to zero / non-zero   *)
FareValues == {0, 1850}

BookingStatuses ==
    {"pending", "searching", "accepted", "arrived", "started",
     "completed", "cancelled", "expired"}

RequestStatuses == {"sent", "accepted", "rejected", "expired"}

StatusChoices ==
    {"pending", "accepted", "arrived", "started", "completed",
     "cancelled", "no_show"}

(* Users that may talk to a trip: its passenger, its assigned driver, and  *)
(* some unrelated authenticated user.                                      *)
Users == {"passenger", "driver", "other"}

(* Values a client may put in the status field of a trip_status message.   *)
MessageStatuses == StatusChoices \cup {"bogus"}

(* Users that may open a WebSocket: the users above, an anonymous user, a  *)
(* driver assigned to another trip, and a user flagged is_driver that has  *)
(* no Driver row.                                                          *)
Clients == Users \cup {"anonymous", "other_driver", "driver_no_profile"}

(* Trip ids a client may put in the URL of a tracking room: trip 1, and an *)
(* id no Trip row has.                                                     *)
TripIds == {1, 2}

(* Positions (lat, lng) a client may send.                                 *)
Positions == {"A", "B"}

VARIABLES
    now,        \* timezone.now()
    drivers,    \* core.Driver rows: d -> columns read by the locator
    booking,    \* the booking.Booking row
    requests,   \* booking.BookingRequest rows, keyed by driver (unique_together)
    trips,      \* core.Trip rows, in creation order
    dispatch,   \* the book() request running search_drivers_for_booking
    tracker,    \* a track_booking request of the passenger
    handler,    \* per driver: an accept / reject call in progress
    tproc,      \* handlers acting on trip 1: trip_status messages, cancel_trip
    room,       \* tracking rooms: the WebSocket connections and the groups
    quote,      \* an estimate_fare call: its arguments and its result
    tracking,   \* location columns of trip 1 and its booking.TripTracking row
    route,      \* a calculate_route call: its inputs, the provider, its result
    hist        \* history, no effect on the program

vars == <<now, drivers, booking, requests, trips, dispatch, tracker, handler,
          tproc, room, quote, tracking, route, hist>>

----------------------------------------------------------------------------
(* Driver locator: the queryset of search_drivers_for_booking *)

RECURSIVE SortByDistance(_, _)
SortByDistance(S, dist) ==
    IF S = {} THEN <<>>
    ELSE LET m == CHOOSE x \in S : \A y \in S :
                      dist[x] < dist[y] \/ (dist[x] = dist[y] /\ x <= y)
         IN  <<m>> \o SortByDistance(S \ {m}, dist)

Take(s, n) == IF Len(s) <= n THEN s ELSE SubSeq(s, 1, n)

\* a locator whose radius test lets the boundary through
Candidates_Inclusive(drv, vehicle_type) ==
    LET ok == {d \in DOMAIN drv :
                  /\ drv[d].is_available
                  /\ drv[d].is_verified
                  /\ drv[d].vehicle_type = vehicle_type
                  /\ drv[d].has_location
                  /\ drv[d].distance <= SearchRadius}
    IN  Take(SortByDistance(ok, [d \in DOMAIN drv |-> drv[d].distance]),
             MaxCandidates)

\* The order of drivers at equal distance, which order_by('distance')
\* leaves to the database, is taken to be the order of their ids.
Candidates(drv, vehicle_type) ==
    LET ok == {d \in DOMAIN drv :
                  /\ drv[d].is_available
                  /\ drv[d].is_verified
                  /\ drv[d].vehicle_type = vehicle_type
                  /\ drv[d].has_location
                  /\ drv[d].distance < SearchRadius}
    IN  Take(SortByDistance(ok, [d \in DOMAIN drv |-> drv[d].distance]),
             MaxCandidates)

(* Driver rows used as initial data: an eligible driver at 2 km, 4 km, ... *)
(* one that is not available, and one outside the radius                   *)
DriverProfiles(d) ==
    LET base == [is_available |-> TRUE, is_verified |-> TRUE,
                 vehicle_type |-> "taxi", has_location |-> TRUE,
                 distance |-> 2000 * d]
    IN  {base,
         [base EXCEPT !.is_available = FALSE],
         [base EXCEPT !.distance = 15000]}

----------------------------------------------------------------------------
(* Booking *)

\* Booking.is_expired
is_expired(b, t) == t > b.expires_at

\* the row written by booking.save() in book() at time 0: Booking.save sets
\* expires_at ten minutes after creation, status defaults to 'pending'
InitBooking ==
    [status |-> "pending", expires_at |-> 0 + BookingTTL,
     estimated_fare |-> 0, vehicle_type |-> "taxi"]

NoRequest == [status |-> "none", responded_at |-> NULL, expires_at |-> NULL]

NoTrip == [driver |-> 0, status |-> "none", fare |-> 0,
           accepted_at |-> NULL, arrived_at |-> NULL, started_at |-> NULL,
           completed_at |-> NULL, cancelled_at |-> NULL]

IdleHandler == [pc |-> "idle", op |-> "none", status |-> "none",
                responded_at |-> NULL, expires_at |-> NULL, ret |-> "none"]

IdleTripProc == [pc |-> "idle", op |-> "none", user |-> "other",
                 msg |-> "none", copy |-> NoTrip]

DoneTripProc == [IdleTripProc EXCEPT !.pc = "done"]

\* a WebSocket connection that was never opened
NoConn == [pc |-> "none", user |-> "anonymous", trip_id |-> 0]

\* the channel layer with no connection and empty groups
\* status_message, location_message: the payload of the last event of that
\* type handed to group_send for the room of trip 1
NoRoom == [conn |-> [c \in Conns |-> NoConn],
           group |-> [t \in TripIds |-> {}],
           status_message |-> "none", location_message |-> "none"]

\* no estimate_fare call.  The prices of a VehicleType are DecimalFields
\* with two decimal places, held here in hundredths; the distance is a float
\* rounded to two decimals by calculate_route, held in hundredths of a
\* kilometre; the duration is an integer number of minutes.
NoQuote == [vehicle_type |-> [base_price |-> 0, price_per_km |-> 0,
                              price_per_minute |-> 0],
            distance |-> 0, duration |-> 0, is_shared |-> FALSE,
            fare |-> NULL]

\* the location columns before any position was received: Trip.current_location
\* and Driver.current_location are null ("none"), trip 1 has no TripTracking
\* row.
\* driver_positions is the JSON list of the row, each entry a position and
\* its timestamp.
NoTracking == [current_location |-> "none", driver_location |-> "none",
               row |-> FALSE, driver_positions |-> <<>>]

\* the value of a calculate_route call that has not returned
NoResult == [distance |-> NULL, duration |-> NULL]

\* no calculate_route call
NoRoute == [pc |-> "idle", key |-> FALSE, provider |-> "ok", metres |-> 0,
            distance_meters |-> 0, duration_seconds |-> 0,
            result |-> NoResult]

\* stored[d]: the status of d's row when accept() / reject() was entered
\* snap, ntrips, who: the request rows and the number of trips when the
\*     handler of driver who fetched its row (sequential specification)
\* inserted[d]: the number of BookingRequest rows inserted for driver d
\*     (the code deletes none)
NoHist == [stored |-> [d \in Drivers |-> "none"],
           inserted |-> [d \in Drivers |-> 0],
           snap |-> [d \in Drivers |-> NoRequest],
           ntrips |-> 0,
           who |-> 0]

----------------------------------------------------------------------------
(* Trip *)

\* Trip.calculate_fare multiplies a Decimal column by the float distance,
\* which raises TypeError; Trip.save calls it when the fare is falsy.
FareRaises(t) == t.fare = 0

\* Trip.save, when calculate_fare is not called: the timestamp of the
\* current status is stamped if still unset, then every column is written
TripSave(t, time) ==
    IF t.status = "accepted" /\ t.accepted_at = NULL
        THEN [t EXCEPT !.accepted_at = time]
    ELSE IF t.status = "arrived" /\ t.arrived_at = NULL
        THEN [t EXCEPT !.arrived_at = time]
    ELSE IF t.status = "started" /\ t.started_at = NULL
        THEN [t EXCEPT !.started_at = time]
    ELSE IF t.status = "completed" /\ t.completed_at = NULL
        THEN [t EXCEPT !.completed_at = time]
    ELSE IF t.status = "cancelled" /\ t.cancelled_at = NULL
        THEN [t EXCEPT !.cancelled_at = time]
    ELSE t

\* a guard that still lets a trip be cancelled once the driver has arrived
can_be_cancelled_UntilStarted(t) ==
    t.status \in {"pending", "accepted", "arrived"}

\* Trip.can_be_cancelled
can_be_cancelled(t) == t.status \in {"pending", "accepted"}

\* a permission test that forgets who sends: either participant may send
\* any of the four statuses
StatusPermitted_AnyParticipant(user, status) ==
    /\ user \in {"passenger", "driver"}
    /\ status \in {"cancelled", "arrived", "started", "completed"}

\* the permission test of TripTrackingConsumer.update_trip_status
StatusPermitted(user, status) ==
    \/ user = "passenger" /\ status \in {"cancelled"}
    \/ user = "driver" /\ status \in {"arrived", "started", "completed"}

\* the Trip row built by Booking.convert_to_trip, before Trip.save
NewTrip(b, d) ==
    [NoTrip EXCEPT !.driver = d, !.status = "accepted",
                   !.fare = b.estimated_fare]

----------------------------------------------------------------------------
(* Clock *)

Tick ==
    /\ \E t \in Instants : t > now /\ now' = t
    /\ UNCHANGED <<drivers, booking, requests, trips, dispatch, tracker,
                   handler, tproc, room, quote, tracking, route, hist>>

----------------------------------------------------------------------------
(* search_drivers_for_booking, called by book() on its in-memory booking *)

\* the queryset is evaluated once, when the for loop starts
DispatchQuery ==
    /\ dispatch.pc = "start"
    /\ dispatch' = [dispatch EXCEPT
                      !.pc = "create",
                      !.cands = Candidates(drivers, dispatch.booking.vehicle_type),
                      !.i = 1]
    /\ UNCHANGED <<now, drivers, booking, requests, trips, tracker, handler,
                   tproc, room, quote, tracking, route, hist>>

\* BookingRequest.Meta.unique_together = ['booking', 'driver']: an INSERT
\* is refused when the booking already has a row for driver d
unique_together(reqs, d) == reqs[d].status = "none"

\* a loop that inserts each candidate's request twice, on a table without
\* the uniqueness constraint
DispatchCreate_Twice ==
    /\ dispatch.pc = "create"
    /\ dispatch.i <= Len(dispatch.cands)
    /\ LET d == dispatch.cands[dispatch.i] IN
         /\ requests' = [requests EXCEPT ![d] =
                           [status |-> "sent", responded_at |-> NULL,
                            expires_at |-> now + RequestTTL]]
         /\ hist' = [hist EXCEPT !.inserted[d] = @ + 1]
         /\ dispatch' = [dispatch EXCEPT
                           !.i = IF hist.inserted[d] >= 1 THEN @ + 1 ELSE @]
    /\ UNCHANGED <<now, drivers, booking, trips, tracker, handler, tproc,
                   room, quote, tracking, route>>

\* BookingRequest.objects.create for the next candidate
DispatchCreate ==
    /\ dispatch.pc = "create"
    /\ dispatch.i <= Len(dispatch.cands)
    /\ LET d == dispatch.cands[dispatch.i] IN
         /\ unique_together(requests, d)
         /\ requests' = [requests EXCEPT ![d] =
                           [status |-> "sent", responded_at |-> NULL,
                            expires_at |-> now + RequestTTL]]
         /\ hist' = [hist EXCEPT !.inserted[d] = @ + 1]
    /\ dispatch' = [dispatch EXCEPT !.i = dispatch.i + 1]
    /\ UNCHANGED <<now, drivers, booking, trips, tracker, handler, tproc,
                   room, quote, tracking, route>>

\* a dispatcher that reports 'searching' whatever the queryset returned
DispatchSave_AlwaysSearching ==
    /\ dispatch.pc = "create"
    /\ dispatch.i > Len(dispatch.cands)
    /\ LET b == [dispatch.booking EXCEPT !.status = "searching"]
       IN  /\ booking' = b
           /\ dispatch' = [dispatch EXCEPT !.pc = "done", !.booking = b]
    /\ UNCHANGED <<now, drivers, requests, trips, tracker, handler, tproc,
                   room, quote, tracking, route, hist>>

\* booking.status = 'searching' / 'pending'; booking.save()
DispatchSave ==
    /\ dispatch.pc = "create"
    /\ dispatch.i > Len(dispatch.cands)
    /\ LET st == IF Len(dispatch.cands) > 0 THEN "searching" ELSE "pending"
           b  == [dispatch.booking EXCEPT !.status = st]
       IN  /\ booking' = b
           /\ dispatch' = [dispatch EXCEPT !.pc = "done", !.booking = b]
    /\ UNCHANGED <<now, drivers, requests, trips, tracker, handler, tproc,
                   room, quote, tracking, route, hist>>

search_drivers_for_booking == DispatchQuery \/ DispatchCreate \/ DispatchSave

----------------------------------------------------------------------------
(* track_booking *)

TrackFetch ==
    /\ tracker.pc = "idle"
    /\ tracker' = [pc |-> "fetched", booking |-> booking]
    /\ UNCHANGED <<now, drivers, booking, requests, trips, dispatch, handler,
                   tproc, room, quote, tracking, route, hist>>

TrackExpire ==
    /\ tracker.pc = "fetched"
    /\ IF is_expired(tracker.booking, now) /\ tracker.booking.status = "pending"
         THEN booking' = [tracker.booking EXCEPT !.status = "expired"]
         ELSE booking' = booking
    /\ tracker' = [pc |-> "idle", booking |-> InitBooking]
    /\ UNCHANGED <<now, drivers, requests, trips, dispatch, handler, tproc,
                   room, quote, tracking, route, hist>>

track_booking == TrackFetch \/ TrackExpire

----------------------------------------------------------------------------
(* accept_booking / reject_booking / handle_booking_request of driver d *)

\* get_object_or_404(BookingRequest, id=..., driver=..., status='sent'):
\* the row is copied into memory; a row that is not 'sent' is not found
\* (handle_booking_request then returns False, the views answer 404)
FetchRow(d, op) ==
    /\ handler[d].pc = "idle"
    /\ requests[d].status # "none"
    /\ IF requests[d].status = "sent"
         THEN handler' = [handler EXCEPT ![d] =
                   [pc |-> "fetched", op |-> op,
                    status |-> requests[d].status,
                    responded_at |-> requests[d].responded_at,
                    expires_at |-> requests[d].expires_at,
                    ret |-> "none"]]
         ELSE handler' = [handler EXCEPT ![d] =
                   [IdleHandler EXCEPT !.pc = "done", !.op = op,
                                       !.ret = "false"]]
    /\ UNCHANGED <<now, drivers, booking, requests, trips, dispatch, tracker,
                   tproc, room, quote, tracking, route>>

Fetch(d, op) == FetchRow(d, op) /\ UNCHANGED hist

\* BookingRequest.accept, first statements: the test of the in-memory
\* status, then self.save() of the whole row
AcceptSave(d) ==
    /\ handler[d].pc = "fetched"
    /\ handler[d].op = "accept"
    /\ hist' = [hist EXCEPT !.stored[d] = requests[d].status]
    /\ IF handler[d].status = "sent"
         THEN /\ requests' = [requests EXCEPT ![d] =
                   [status |-> "accepted", responded_at |-> now,
                    expires_at |-> handler[d].expires_at]]
              /\ handler' = [handler EXCEPT ![d].pc = "saved",
                                            ![d].status = "accepted",
                                            ![d].responded_at = now]
         ELSE /\ requests' = requests
              /\ handler' = [handler EXCEPT ![d].pc = "done",
                                            ![d].ret = "false"]
    /\ UNCHANGED <<now, drivers, booking, trips, dispatch, tracker, tproc,
                   room, quote, tracking, route>>

\* Booking.convert_to_trip, Trip.objects.create: self.booking is read from
\* its row here; Trip.save raises when the fare is zero, and the exception
\* leaves accept() with the request already saved
ConvertCreateTrip(d) ==
    /\ handler[d].pc = "saved"
    /\ LET t == NewTrip(booking, d) IN
         IF FareRaises(t)
           THEN /\ trips' = trips
                /\ handler' = [handler EXCEPT ![d].pc = "raised",
                                              ![d].ret = "error"]
           ELSE /\ trips' = Append(trips, TripSave(t, now))
                /\ handler' = [handler EXCEPT ![d].pc = "created"]
    /\ UNCHANGED <<now, drivers, booking, requests, dispatch, tracker, tproc,
                   room, quote, tracking, route, hist>>

\* Booking.convert_to_trip, self.status = 'accepted'; self.save().  The
\* other columns of the copy read in ConvertCreateTrip never change after
\* the booking is created, so writing them back is not visible.
ConvertSaveBooking(d) ==
    /\ handler[d].pc = "created"
    /\ booking' = [booking EXCEPT !.status = "accepted"]
    /\ handler' = [handler EXCEPT ![d].pc = "converted"]
    /\ UNCHANGED <<now, drivers, requests, trips, dispatch, tracker, tproc,
                   room, quote, tracking, route, hist>>

\* BookingRequest.objects.filter(booking=..., status='sent')
\*     .update(status='expired'): one UPDATE statement; then return True
ExpireSiblings(d) ==
    /\ handler[d].pc = "converted"
    /\ requests' = [e \in Drivers |->
                      IF requests[e].status = "sent"
                        THEN [requests[e] EXCEPT !.status = "expired"]
                        ELSE requests[e]]
    /\ handler' = [handler EXCEPT ![d].pc = "done", ![d].ret = "true"]
    /\ UNCHANGED <<now, drivers, booking, trips, dispatch, tracker, tproc,
                   room, quote, tracking, route, hist>>

accept(d) ==
    \/ AcceptSave(d)
    \/ ConvertCreateTrip(d)
    \/ ConvertSaveBooking(d)
    \/ ExpireSiblings(d)

\* BookingRequest.reject
reject(d) ==
    /\ handler[d].pc = "fetched"
    /\ handler[d].op = "reject"
    /\ hist' = [hist EXCEPT !.stored[d] = requests[d].status]
    /\ IF handler[d].status = "sent"
         THEN /\ requests' = [requests EXCEPT ![d] =
                   [status |-> "rejected", responded_at |-> now,
                    expires_at |-> handler[d].expires_at]]
              /\ handler' = [handler EXCEPT ![d].pc = "done",
                                            ![d].status = "rejected",
                                            ![d].responded_at = now,
                                            ![d].ret = "true"]
         ELSE /\ requests' = requests
              /\ handler' = [handler EXCEPT ![d].pc = "done",
                                            ![d].ret = "false"]
    /\ UNCHANGED <<now, drivers, booking, trips, dispatch, tracker, tproc,
                   room, quote, tracking, route>>

handle_booking_request(d) ==
    \/ \E op \in {"accept", "reject"} : Fetch(d, op)
    \/ accept(d)
    \/ reject(d)

----------------------------------------------------------------------------
(* Specification of the matching layer: one booking from book() to a trip *)

Init ==
    /\ now = 0
    /\ drivers \in {f \in [Drivers -> UNION {DriverProfiles(d) : d \in Drivers}] :
                      \A d \in Drivers : f[d] \in DriverProfiles(d)}
    /\ \E fare \in FareValues :
         /\ booking = [InitBooking EXCEPT !.estimated_fare = fare]
         /\ dispatch = [pc |-> "start", cands |-> <<>>, i |-> 1,
                        booking |-> [InitBooking EXCEPT !.estimated_fare = fare]]
    /\ requests = [d \in Drivers |-> NoRequest]
    /\ trips = <<>>
    /\ tracker = [pc |-> "idle", booking |-> InitBooking]
    /\ handler = [d \in Drivers |-> IdleHandler]
    /\ tproc = [p \in TripProcs |-> IdleTripProc]
    /\ room = NoRoom
    /\ quote = NoQuote
    /\ tracking = NoTracking
    /\ route = NoRoute
    /\ hist = NoHist

Next ==
    \/ Tick
    \/ search_drivers_for_booking
    \/ track_booking
    \/ \E d \in Drivers : handle_booking_request(d)

Spec == Init /\ [][Next]_vars

----------------------------------------------------------------------------
(* book(), direct selection: the passenger posted selected_driver_id.  The *)
(* path ends book(); search_drivers_for_booking is not reached.            *)

\* Driver.objects.get(id=selected_driver_id, is_available=True,
\* is_verified=True); DoesNotExist ends book() with an error message
DirectSelect(d) ==
    /\ dispatch.pc = "start"
    /\ IF drivers[d].is_available /\ drivers[d].is_verified
         THEN dispatch' = [dispatch EXCEPT !.pc = "direct", !.cands = <<d>>]
         ELSE dispatch' = [dispatch EXCEPT !.pc = "done"]
    /\ UNCHANGED <<now, drivers, booking, requests, trips, tracker, handler,
                   tproc, room, quote, tracking, route, hist>>

\* BookingRequest.objects.create(status='accepted', responded_at=now,
\* expires_at=now + 30 minutes)
DirectCreateRequest ==
    /\ dispatch.pc = "direct"
    /\ LET d == dispatch.cands[1] IN
         /\ unique_together(requests, d)
         /\ requests' = [requests EXCEPT ![d] =
                           [status |-> "accepted", responded_at |-> now,
                            expires_at |-> now + DirectTTL]]
         /\ hist' = [hist EXCEPT !.inserted[d] = @ + 1]
    /\ dispatch' = [dispatch EXCEPT !.pc = "direct_booking"]
    /\ UNCHANGED <<now, drivers, booking, trips, tracker, handler, tproc,
                   room, quote, tracking, route>>

\* booking.status = 'accepted'; booking.save()
DirectSaveBooking ==
    /\ dispatch.pc = "direct_booking"
    /\ LET b == [dispatch.booking EXCEPT !.status = "accepted"] IN
         /\ booking' = b
         /\ dispatch' = [dispatch EXCEPT !.pc = "direct_trip", !.booking = b]
    /\ UNCHANGED <<now, drivers, requests, trips, tracker, handler, tproc,
                   room, quote, tracking, route, hist>>

\* Trip.objects.create(..., fare=booking.estimated_fare, status='accepted');
\* an exception of Trip.save is caught by the except Exception of book()
DirectCreateTrip ==
    /\ dispatch.pc = "direct_trip"
    /\ LET t == NewTrip(dispatch.booking, dispatch.cands[1]) IN
         IF FareRaises(t)
           THEN trips' = trips
           ELSE trips' = Append(trips, TripSave(t, now))
    /\ dispatch' = [dispatch EXCEPT !.pc = "done"]
    /\ UNCHANGED <<now, drivers, booking, requests, tracker, handler, tproc,
                   room, quote, tracking, route, hist>>

book_direct ==
    \/ \E d \in Drivers : DirectSelect(d)
    \/ DirectCreateRequest
    \/ DirectSaveBooking
    \/ DirectCreateTrip

NextBook == Next \/ book_direct

SpecBook == Init /\ [][NextBook]_vars

----------------------------------------------------------------------------
(* The locator on its own: the queryset of search_drivers_for_booking      *)
(* evaluated on a table of Driver rows                                     *)

\* a Driver row that passes every filter, at the given distance in metres
EligibleRow(dist) ==
    [is_available |-> TRUE, is_verified |-> TRUE, vehicle_type |-> "taxi",
     has_location |-> TRUE, distance |-> dist]

\* Driver rows: inside, at and outside the radius, and rows failing one
\* filter each
DriverRows ==
    {EligibleRow(dist) : dist \in {2000, 8000, 9999, 10000, 15000}}
    \cup {[EligibleRow(2000) EXCEPT !.is_available = FALSE],
          [EligibleRow(2000) EXCEPT !.is_verified = FALSE],
          [EligibleRow(2000) EXCEPT !.vehicle_type = "moto"],
          [EligibleRow(2000) EXCEPT !.has_location = FALSE]}

\* every table of at most NumFleet drivers
SmallFleets == UNION {[1..n -> DriverRows] : n \in 0..NumFleet}

\* tables with more eligible drivers than the queryset's slice keeps:
\* distances ascending, descending, all equal, and alternating with
\* drivers outside the radius
LargeFleets ==
    UNION {{[d \in 1..n |-> EligibleRow(500 * d)],
            [d \in 1..n |-> EligibleRow(500 * (n + 1 - d))],
            [d \in 1..n |-> EligibleRow(3000)],
            [d \in 1..n |-> EligibleRow(IF d % 3 = 0 THEN 15000
                                         ELSE 9000 - 500 * d)]}
           : n \in (MaxCandidates + 1)..(MaxCandidates + NumExtra)}

InitLocator ==
    /\ now = 0
    /\ drivers \in SmallFleets \cup LargeFleets
    /\ booking = InitBooking
    /\ dispatch = [pc |-> "start", cands |-> <<>>, i |-> 1,
                   booking |-> InitBooking]
    /\ requests = [d \in Drivers |-> NoRequest]
    /\ trips = <<>>
    /\ tracker = [pc |-> "idle", booking |-> InitBooking]
    /\ handler = [d \in Drivers |-> IdleHandler]
    /\ tproc = [p \in TripProcs |-> IdleTripProc]
    /\ room = NoRoom
    /\ quote = NoQuote
    /\ tracking = NoTracking
    /\ route = NoRoute
    /\ hist = NoHist

NextLocator == DispatchQuery

SpecLocator == InitLocator /\ [][NextLocator]_vars

----------------------------------------------------------------------------
(* estimate_fare *)

\* Decimal.quantize(Decimal('0.01')) under the default context
\* (ROUND_HALF_EVEN), for an amount given in units of 0.00001: the result
\* is in hundredths
quantize(amount) ==
    LET q == amount \div 1000
        r == amount % 1000
    IN  IF 2 * r > 1000 \/ (2 * r = 1000 /\ q % 2 = 1) THEN q + 1 ELSE q

\* an estimate that drops the digits after the second decimal
estimate_fare_Truncating(vehicle_type, distance, duration, is_shared) ==
    LET total == vehicle_type.base_price * 100
                   + vehicle_type.price_per_km * distance
                   + vehicle_type.price_per_minute * duration * 100
    IN  IF is_shared THEN (total * 10 - total * 3) \div 1000
        ELSE (total * 10) \div 1000

\* estimate_fare: the products and the sum are exact Decimals; total is in
\* units of 0.0001, the discount total * Decimal('0.30') and the
\* discounted total in units of 0.00001
estimate_fare(vehicle_type, distance, duration, is_shared) ==
    LET base_price == vehicle_type.base_price * 100
        distance_price == vehicle_type.price_per_km * distance
        time_price == vehicle_type.price_per_minute * duration * 100
        total == base_price + distance_price + time_price
        discount == total * 3
    IN  IF is_shared THEN quantize(total * 10 - discount)
        ELSE quantize(total * 10)

\* estimate_fare_api (and book(), which stores the result in
\* Booking.estimated_fare)
estimate_fare_api ==
    /\ quote.fare = NULL
    /\ quote' = [quote EXCEPT !.fare =
                    estimate_fare(quote.vehicle_type, quote.distance,
                                  quote.duration, quote.is_shared)]
    /\ UNCHANGED <<now, drivers, booking, requests, trips, dispatch, tracker,
                   handler, tproc, room, tracking, route, hist>>

\* arguments: prices of 0, 0.01, 0.33, 50.00, 250.00, 500.50 and 1000.00,
\* distances of 0, 0.5, 1.23 and 5 km, durations of 0, 7 and 15 minutes
BasePrices == {0, 50050, 100000}
KmPrices == {1, 33, 25000}
MinutePrices == {1, 5000}
Distances == {0, 50, 123, 500}
Durations == {0, 7, 15}

InitFare ==
    /\ now = 0
    /\ drivers = [d \in Drivers |-> EligibleRow(2000 * d)]
    /\ booking = InitBooking
    /\ dispatch = [pc |-> "done", cands |-> <<>>, i |-> 1,
                   booking |-> InitBooking]
    /\ requests = [d \in Drivers |-> NoRequest]
    /\ trips = <<>>
    /\ tracker = [pc |-> "idle", booking |-> InitBooking]
    /\ handler = [d \in Drivers |-> IdleHandler]
    /\ tproc = [p \in TripProcs |-> IdleTripProc]
    /\ room = NoRoom
    /\ quote \in [vehicle_type : [base_price : BasePrices,
                                    price_per_km : KmPrices,
                                    price_per_minute : MinutePrices],
                   distance : Distances, duration : Durations,
                   is_shared : BOOLEAN, fare : {NULL}]
    /\ tracking = NoTracking
    /\ route = NoRoute
    /\ hist = NoHist

NextFare == estimate_fare_api

SpecFare == InitFare /\ [][NextFare]_vars

----------------------------------------------------------------------------
(* The matching layer under the most generous scheduling: time passes,     *)
(* every handler that can take a step eventually takes one, the passenger  *)
(* keeps polling track_booking and every driver answers its request        *)

Fairness ==
    /\ WF_vars(Tick)
    /\ WF_vars(search_drivers_for_booking)
    /\ WF_vars(track_booking)
    /\ \A d \in Drivers : WF_vars(handle_booking_request(d))

SpecLive == Init /\ [][Next]_vars /\ Fairness

----------------------------------------------------------------------------
(* The same handlers run one at a time: a handler starts only when no      *)
(* other handler is between two of its statements                          *)

DispatchQuiet == dispatch.pc \in {"start", "done"}
TrackerQuiet == tracker.pc = "idle"
HandlerQuiet(d) == handler[d].pc \in {"idle", "done", "raised"}

\* the fetch of the views, recording what the handler found
SeqFetch(d, op) ==
    /\ FetchRow(d, op)
    /\ hist' = [hist EXCEPT !.snap = requests, !.ntrips = Len(trips),
                            !.who = d]

SeqHandle(d) ==
    \/ \E op \in {"accept", "reject"} : SeqFetch(d, op)
    \/ accept(d)
    \/ reject(d)

SeqNext ==
    \/ Tick
    \/ /\ TrackerQuiet /\ \A d \in Drivers : HandlerQuiet(d)
       /\ search_drivers_for_booking
    \/ /\ DispatchQuiet /\ \A d \in Drivers : HandlerQuiet(d)
       /\ track_booking
    \/ \E d \in Drivers :
          /\ DispatchQuiet /\ TrackerQuiet
          /\ \A e \in Drivers \ {d} : HandlerQuiet(e)
          /\ SeqHandle(d)

SpecSeq == Init /\ [][SeqNext]_vars

----------------------------------------------------------------------------
(* Handlers acting on trip 1: each of the NumTripProcs handlers serves one *)
(* trip_status message or one cancel_trip request.  Only the trip's        *)
(* passenger and its assigned driver get past                              *)
(* TripTrackingConsumer.connect and the query of cancel_trip.              *)

Participants == {"passenger", "driver"}

\* TripTrackingConsumer.update_trip_status: Trip.objects.get
StatusLoad(p, user, msg) ==
    /\ tproc[p].pc = "idle"
    /\ trips # <<>>
    /\ tproc' = [tproc EXCEPT ![p] =
                   [pc |-> "loaded", op |-> "status", user |-> user,
                    msg |-> msg, copy |-> trips[1]]]
    /\ UNCHANGED <<now, drivers, booking, requests, trips, dispatch, tracker,
                   handler, room, quote, tracking, route, hist>>

\* TripTrackingConsumer.update_trip_status: the permission test, then
\* trip.status = status; trip.save()
StatusSave(p) ==
    /\ tproc[p].pc = "loaded"
    /\ tproc[p].op = "status"
    /\ IF /\ StatusPermitted(tproc[p].user, tproc[p].msg)
          /\ ~FareRaises(tproc[p].copy)
         THEN trips' = [trips EXCEPT ![1] =
                  TripSave([tproc[p].copy EXCEPT !.status = tproc[p].msg], now)]
         ELSE trips' = trips
    /\ tproc' = [tproc EXCEPT ![p] = DoneTripProc]
    /\ UNCHANGED <<now, drivers, booking, requests, dispatch, tracker,
                   handler, room, quote, tracking, route, hist>>

update_trip_status(p) ==
    \/ \E user \in Participants, msg \in MessageStatuses :
          StatusLoad(p, user, msg)
    \/ StatusSave(p)

\* cancel_trip: get_object_or_404, then the can_be_cancelled test.  A GET
\* only renders the confirmation form; the handler modelled is the POST.
CancelFetch(p, user) ==
    /\ tproc[p].pc = "idle"
    /\ trips # <<>>
    /\ IF can_be_cancelled(trips[1])
         THEN tproc' = [tproc EXCEPT ![p] =
                   [pc |-> "loaded", op |-> "cancel", user |-> user,
                    msg |-> "cancelled", copy |-> trips[1]]]
         ELSE tproc' = [tproc EXCEPT ![p] = DoneTripProc]
    /\ UNCHANGED <<now, drivers, booking, requests, trips, dispatch, tracker,
                   handler, room, quote, tracking, route, hist>>

\* cancel_trip, POST: trip.status = 'cancelled';
\* trip.cancelled_at = timezone.now(); trip.save()
CancelSave(p) ==
    /\ tproc[p].pc = "loaded"
    /\ tproc[p].op = "cancel"
    /\ IF ~FareRaises(tproc[p].copy)
         THEN trips' = [trips EXCEPT ![1] =
                  TripSave([tproc[p].copy EXCEPT !.status = "cancelled",
                                                 !.cancelled_at = now], now)]
         ELSE trips' = trips
    /\ tproc' = [tproc EXCEPT ![p] = DoneTripProc]
    /\ UNCHANGED <<now, drivers, booking, requests, dispatch, tracker,
                   handler, room, quote, tracking, route, hist>>

cancel_trip(p) ==
    \/ \E user \in Participants : CancelFetch(p, user)
    \/ CancelSave(p)

----------------------------------------------------------------------------
(* Specification of the trip lifecycle: the state after driver 1 accepted  *)
(* the booking, then any trip_status messages and cancel_trip requests     *)

InitTrip ==
    /\ now = 0
    /\ drivers = [d \in Drivers |->
                    [is_available |-> TRUE, is_verified |-> TRUE,
                     vehicle_type |-> "taxi", has_location |-> TRUE,
                     distance |-> 2000 * d]]
    /\ \E fare \in FareValues \ {0} :
         LET b == [InitBooking EXCEPT !.estimated_fare = fare,
                                      !.status = "accepted"]
         IN  /\ booking = b
             /\ dispatch = [pc |-> "done", cands |-> <<>>, i |-> 1,
                            booking |-> [b EXCEPT !.status = "searching"]]
             /\ trips = <<TripSave(NewTrip(b, 1), 0)>>
    /\ requests = [d \in Drivers |->
                     [status |-> IF d = 1 THEN "accepted" ELSE "expired",
                      responded_at |-> IF d = 1 THEN 0 ELSE NULL,
                      expires_at |-> 0 + RequestTTL]]
    /\ tracker = [pc |-> "idle", booking |-> InitBooking]
    /\ handler = [d \in Drivers |-> IdleHandler]
    /\ tproc = [p \in TripProcs |-> IdleTripProc]
    /\ room = NoRoom
    /\ quote = NoQuote
    /\ tracking = NoTracking
    /\ route = NoRoute
    /\ hist = NoHist

NextTrip ==
    \/ Tick
    \/ \E p \in TripProcs : update_trip_status(p)
    \/ \E p \in TripProcs : cancel_trip(p)

SpecTrip == InitTrip /\ [][NextTrip]_vars

----------------------------------------------------------------------------
(* TripTrackingConsumer: connections to the tracking room of a trip.  Each *)
(* await of connect is a step; Channels runs the handlers of one           *)
(* connection one after the other, so disconnect follows connect.          *)

\* a permission test that lets any driver with a profile in
has_permission_AnyDriver(user) ==
    user \in {"passenger", "driver", "other_driver"}

\* TripTrackingConsumer.has_permission, for trip 1: user == trip.passenger
\* or (user.is_driver and user.driver_profile == trip.driver)
has_permission(user) == user = "passenger" \/ user = "driver"

\* user.driver_profile raises RelatedObjectDoesNotExist for a user flagged
\* is_driver that has no Driver row
PermissionRaises(user) == user = "driver_no_profile"

\* the handshake reaches connect(): trip_id and room_group_name are set,
\* an anonymous user is closed
ConnOpen(c, user, trip_id) ==
    /\ room.conn[c].pc = "none"
    /\ room' = [room EXCEPT !.conn[c] =
                   [pc |-> IF user = "anonymous" THEN "closed" ELSE "get_trip",
                    user |-> user, trip_id |-> trip_id]]
    /\ UNCHANGED <<now, drivers, booking, requests, trips, dispatch, tracker,
                   handler, tproc, quote, tracking, route, hist>>

\* trip = await self.get_trip(): Trip.objects.get, None when there is no
\* such row
ConnGetTrip(c) ==
    /\ room.conn[c].pc = "get_trip"
    /\ room' = [room EXCEPT !.conn[c].pc =
                   IF room.conn[c].trip_id \in 1..Len(trips)
                     THEN "has_permission" ELSE "closed"]
    /\ UNCHANGED <<now, drivers, booking, requests, trips, dispatch, tracker,
                   handler, tproc, quote, tracking, route, hist>>

\* await self.has_permission(trip); an exception ends the consumer before
\* it has joined the group
ConnPermission(c) ==
    /\ room.conn[c].pc = "has_permission"
    /\ room' = [room EXCEPT !.conn[c].pc =
                   IF PermissionRaises(room.conn[c].user) THEN "raised"
                   ELSE IF has_permission(room.conn[c].user) THEN "group_add"
                   ELSE "closed"]
    /\ UNCHANGED <<now, drivers, booking, requests, trips, dispatch, tracker,
                   handler, tproc, quote, tracking, route, hist>>

\* await self.channel_layer.group_add(self.room_group_name, channel_name)
ConnGroupAdd(c) ==
    /\ room.conn[c].pc = "group_add"
    /\ room' = [room EXCEPT !.conn[c].pc = "accept",
                            !.group[room.conn[c].trip_id] = @ \cup {c}]
    /\ UNCHANGED <<now, drivers, booking, requests, trips, dispatch, tracker,
                   handler, tproc, quote, tracking, route, hist>>

\* await self.accept(), then the initial state is sent to the client
ConnAccept(c) ==
    /\ room.conn[c].pc = "accept"
    /\ room' = [room EXCEPT !.conn[c].pc = "open"]
    /\ UNCHANGED <<now, drivers, booking, requests, trips, dispatch, tracker,
                   handler, tproc, quote, tracking, route, hist>>

connect(c) ==
    \/ \E user \in Clients, trip_id \in TripIds : ConnOpen(c, user, trip_id)
    \/ ConnGetTrip(c)
    \/ ConnPermission(c)
    \/ ConnGroupAdd(c)
    \/ ConnAccept(c)

\* TripTrackingConsumer.disconnect, after the client left or after close():
\* group_discard.  A consumer ended by an exception runs no disconnect.
disconnect(c) ==
    /\ room.conn[c].pc \in {"open", "closed", "raised"}
    /\ room' = [room EXCEPT
                  !.conn[c] = NoConn,
                  !.group[room.conn[c].trip_id] =
                      IF room.conn[c].pc = "raised" THEN @ ELSE @ \ {c}]
    /\ UNCHANGED <<now, drivers, booking, requests, trips, dispatch, tracker,
                   handler, tproc, quote, tracking, route, hist>>

InitRoom == InitTrip

NextRoom ==
    \/ \E c \in Conns : connect(c)
    \/ \E c \in Conns : disconnect(c)

SpecRoom == InitRoom /\ [][NextRoom]_vars

----------------------------------------------------------------------------
(* The trip handlers on a Trip row of any status: the rows the platform    *)
(* creates are accepted, the column defaults to pending, and any status    *)
(* of StatusChoices can be stored                                          *)

\* a Trip row of driver 1 in the given status, with the timestamps of the
\* statuses it went through stamped at time 0
TripInStatus(status, fare) ==
    LET t == [NoTrip EXCEPT !.driver = 1, !.status = status, !.fare = fare]
        a == [t EXCEPT !.accepted_at = 0]
        r == [a EXCEPT !.arrived_at = 0]
        b == [r EXCEPT !.started_at = 0]
    IN  CASE status = "pending" -> t
          [] status = "accepted" -> a
          [] status = "arrived" -> r
          [] status = "started" -> b
          [] status = "completed" -> [b EXCEPT !.completed_at = 0]
          [] status = "cancelled" -> [a EXCEPT !.cancelled_at = 0]
          [] status = "no_show" -> a

InitCancel ==
    /\ now = 0
    /\ drivers = [d \in Drivers |-> EligibleRow(2000 * d)]
    /\ \E fare \in FareValues \ {0} :
         LET b == [InitBooking EXCEPT !.estimated_fare = fare,
                                      !.status = "accepted"]
         IN  /\ booking = b
             /\ dispatch = [pc |-> "done", cands |-> <<>>, i |-> 1,
                            booking |-> [b EXCEPT !.status = "searching"]]
             /\ \E status \in StatusChoices :
                   trips = <<TripInStatus(status, fare)>>
    /\ requests = [d \in Drivers |->
                     [status |-> IF d = 1 THEN "accepted" ELSE "expired",
                      responded_at |-> IF d = 1 THEN 0 ELSE NULL,
                      expires_at |-> 0 + RequestTTL]]
    /\ tracker = [pc |-> "idle", booking |-> InitBooking]
    /\ handler = [d \in Drivers |-> IdleHandler]
    /\ tproc = [p \in TripProcs |-> IdleTripProc]
    /\ room = NoRoom
    /\ quote = NoQuote
    /\ tracking = NoTracking
    /\ route = NoRoute
    /\ hist = NoHist

SpecCancel == InitCancel /\ [][NextTrip]_vars

----------------------------------------------------------------------------
(* Positions of a running trip: location_update messages on the tracking   *)
(* channel of trip 1, served by the handlers of tproc, and the             *)
(* update_trip_location view                                               *)

\* TripTrackingConsumer.receive, a location_update message:
\* update_trip_location starts with Trip.objects.get
LocationLoad(p, user, pos) ==
    /\ tproc[p].pc = "idle"
    /\ trips # <<>>
    /\ tproc' = [tproc EXCEPT ![p] =
                   [pc |-> "loaded", op |-> "location", user |-> user,
                    msg |-> pos, copy |-> trips[1]]]
    /\ UNCHANGED <<now, drivers, booking, requests, trips, dispatch,
                   tracker, handler, room, quote, tracking, route, hist>>

\* TripTrackingConsumer.update_trip_location: for the assigned driver,
\* trip.save(update_fields=['current_location']) and
\* trip.driver.update_location(lat, lng); nothing for another sender
LocationSave(p) ==
    /\ tproc[p].pc = "loaded"
    /\ tproc[p].op = "location"
    /\ IF tproc[p].user = "driver"
         THEN tracking' = [tracking EXCEPT
                             !.current_location = tproc[p].msg,
                             !.driver_location = tproc[p].msg]
         ELSE tracking' = tracking
    /\ tproc' = [tproc EXCEPT ![p].pc = "group_send"]
    /\ UNCHANGED <<now, drivers, booking, requests, trips, dispatch,
                   tracker, handler, room, quote, route, hist>>

\* TripTrackingConsumer.receive: group_send of the location_message, sent
\* whatever update_trip_location did
LocationSend(p) ==
    /\ tproc[p].pc = "group_send"
    /\ tproc[p].op = "location"
    /\ room' = [room EXCEPT !.location_message = tproc[p].msg]
    /\ tproc' = [tproc EXCEPT ![p] = DoneTripProc]
    /\ UNCHANGED <<now, drivers, booking, requests, trips, dispatch,
                   tracker, handler, quote, tracking, route, hist>>

location_update(p) ==
    \/ \E user \in Participants, pos \in Positions :
          LocationLoad(p, user, pos)
    \/ LocationSave(p)
    \/ LocationSend(p)

\* TripTracking.add_position: the entry is stamped with timezone.now() and
\* appended; save(update_fields=['driver_positions'])
add_position(positions, pos, time) ==
    Append(positions, [pos |-> pos, timestamp |-> time])

\* the update_trip_location view, POST by a driver (driver_required):
\* get_object_or_404(Trip, id=trip_id, driver=request.user.driver_profile)
\* answers 404 to a driver the trip is not assigned to; then
\* trip.save(update_fields=['current_location']);
\* TripTracking.objects.get_or_create(trip=trip) fetches the row of the trip
\* or, when there is none, inserts one without estimated_arrival, which the
\* NOT NULL column refuses (IntegrityError, not caught); add_position
update_trip_location_api(user, pos) ==
    /\ trips # <<>>
    /\ Len(tracking.driver_positions) < MaxPositions
    /\ IF user = "driver"
         THEN tracking' = [tracking EXCEPT
                 !.current_location = pos,
                 !.driver_positions =
                     IF tracking.row THEN add_position(@, pos, now) ELSE @]
         ELSE tracking' = tracking
    /\ UNCHANGED <<now, drivers, booking, requests, trips, dispatch,
                   tracker, handler, tproc, room, quote, route, hist>>

\* the state after driver 1 accepted the booking; the TripTracking row of
\* the trip exists or not
InitTrack ==
    /\ now = 0
    /\ drivers = [d \in Drivers |-> EligibleRow(2000 * d)]
    /\ \E fare \in FareValues \ {0} :
         LET b == [InitBooking EXCEPT !.estimated_fare = fare,
                                      !.status = "accepted"]
         IN  /\ booking = b
             /\ dispatch = [pc |-> "done", cands |-> <<>>, i |-> 1,
                            booking |-> [b EXCEPT !.status = "searching"]]
             /\ trips = <<TripSave(NewTrip(b, 1), 0)>>
    /\ requests = [d \in Drivers |->
                     [status |-> IF d = 1 THEN "accepted" ELSE "expired",
                      responded_at |-> IF d = 1 THEN 0 ELSE NULL,
                      expires_at |-> 0 + RequestTTL]]
    /\ tracker = [pc |-> "idle", booking |-> InitBooking]
    /\ handler = [d \in Drivers |-> IdleHandler]
    /\ tproc = [p \in TripProcs |-> IdleTripProc]
    /\ room = NoRoom
    /\ quote = NoQuote
    /\ \E row \in BOOLEAN : tracking = [NoTracking EXCEPT !.row = row]
    /\ route = NoRoute
    /\ hist = NoHist

NextTrack ==
    \/ Tick
    \/ \E p \in TripProcs : location_update(p)
    \/ \E user \in {"driver", "other_driver"}, pos \in Positions :
          update_trip_location_api(user, pos)

SpecTrack == InitTrack /\ [][NextTrack]_vars

----------------------------------------------------------------------------
(* calculate_route: the Distance Matrix call and the haversine fallback.   *)
(* The coordinates enter through metres, their great-circle distance as    *)
(* the haversine formula gives it (R = 6371 km), in metres.                *)

\* what requests.get(url) and the parsing of its response can come to: a
\* usable element, an exception of requests, an HTTP error status
\* (raise_for_status), a top-level status or an element status other than
\* OK, a body that is not the expected JSON (ValueError, KeyError,
\* IndexError, TypeError), or no answer at all
ProviderOutcomes ==
    {"ok", "connection_error", "http_error", "api_status", "element_status",
     "malformed", "no_answer"}

ProviderFailures ==
    {"connection_error", "http_error", "api_status", "element_status",
     "malformed"}

Metres == {0, 730, 1486, 12342}
DistanceMeters == {0, 1486, 12342}
DurationSeconds == {90, 754}

\* round() of n / unit to an integer, ties to the even neighbour
round_half_even(n, unit) ==
    LET q == n \div unit
        r == n % unit
    IN  IF 2 * r > unit \/ (2 * r = unit /\ q % 2 = 1) THEN q + 1 ELSE q

\* calculate_route_haversine: the distance rounded to two decimals (held in
\* hundredths of a kilometre), the duration at 30 km/h plus two minutes
calculate_route_haversine(metres) ==
    LET minutes == (metres \div 500) + 2
    IN  [distance |-> round_half_even(metres, 10),
         duration |-> IF minutes > 2 THEN minutes ELSE 2]

\* calculate_route_google_maps, the value returned for an OK element
google_maps_result(distance_meters, duration_seconds) ==
    [distance |-> round_half_even(distance_meters, 10),
     duration |-> round_half_even(duration_seconds, 60)]

\* a handler that catches only the exceptions of requests
Caught_RequestErrors(outcome) ==
    outcome \in {"connection_error", "http_error"}

\* calculate_route: except Exception catches every failure of the provider
Caught(outcome) == outcome \in ProviderFailures

\* calculate_route up to requests.get: without GOOGLE_MAPS_API_KEY the
\* haversine value is returned at once
RouteCall ==
    /\ route.pc = "idle"
    /\ IF route.key
         THEN route' = [route EXCEPT !.pc = "requests_get"]
         ELSE route' = [route EXCEPT
                          !.pc = "done",
                          !.result = calculate_route_haversine(route.metres)]
    /\ UNCHANGED <<now, drivers, booking, requests, trips, dispatch, tracker,
                   handler, tproc, room, quote, tracking, hist>>

\* requests.get(url) returns or raises: it is called without timeout, so
\* there is no step when the provider does not answer
RouteResponse ==
    /\ route.pc = "requests_get"
    /\ route.provider # "no_answer"
    /\ route' =
         IF route.provider = "ok"
           THEN [route EXCEPT
                   !.pc = "done",
                   !.result = google_maps_result(route.distance_meters,
                                                 route.duration_seconds)]
         ELSE IF Caught(route.provider)
           THEN [route EXCEPT
                   !.pc = "done",
                   !.result = calculate_route_haversine(route.metres)]
         ELSE [route EXCEPT !.pc = "raised"]
    /\ UNCHANGED <<now, drivers, booking, requests, trips, dispatch, tracker,
                   handler, tproc, room, quote, tracking, hist>>

calculate_route == RouteCall \/ RouteResponse

InitRoute ==
    /\ now = 0
    /\ drivers = [d \in Drivers |-> EligibleRow(2000 * d)]
    /\ booking = InitBooking
    /\ dispatch = [pc |-> "start", cands |-> <<>>, i |-> 1,
                   booking |-> InitBooking]
    /\ requests = [d \in Drivers |-> NoRequest]
    /\ trips = <<>>
    /\ tracker = [pc |-> "idle", booking |-> InitBooking]
    /\ handler = [d \in Drivers |-> IdleHandler]
    /\ tproc = [p \in TripProcs |-> IdleTripProc]
    /\ room = NoRoom
    /\ quote = NoQuote
    /\ tracking = NoTracking
    /\ route \in [pc : {"idle"}, key : BOOLEAN, provider : ProviderOutcomes,
                   metres : Metres, distance_meters : DistanceMeters,
                   duration_seconds : DurationSeconds, result : {NoResult}]
    /\ hist = NoHist

NextRoute == calculate_route

SpecRoute == InitRoute /\ [][NextRoute]_vars

\* the call runs in a worker that is scheduled as long as it can proceed
SpecRouteLive == InitRoute /\ [][NextRoute]_vars /\ WF_vars(calculate_route)

----------------------------------------------------------------------------
(* book() from booking.save() on, classic mode (no selected_driver_id):    *)
(* send_booking_admin_notification, then search_drivers_for_booking, all   *)
(* inside the try of book()                                                *)

\* what send_booking_admin_notification can come to: no admin address
\* (returns False), the mail is sent (True), email.send raises (caught,
\* False), or render_to_string / EmailMessage raises while the mail is
\* built, outside the try of the function
NotifyOutcomes == {"no_admin", "sent", "send_raises", "render_raises"}

\* an exception that leaves send_booking_admin_notification is caught by
\* the except Exception of book(), which reports an error and skips the
\* rest of the try: search_drivers_for_booking is not called
send_booking_admin_notification(outcome) ==
    /\ dispatch.pc = "notify"
    /\ dispatch' = [dispatch EXCEPT
                      !.pc = IF outcome = "render_raises" THEN "done"
                             ELSE "start"]
    /\ UNCHANGED <<now, drivers, booking, requests, trips, tracker, handler,
                   tproc, room, quote, tracking, route, hist>>

InitNotify ==
    /\ now = 0
    /\ drivers \in {f \in [Drivers -> UNION {DriverProfiles(d) : d \in Drivers}] :
                      \A d \in Drivers : f[d] \in DriverProfiles(d)}
    /\ \E fare \in FareValues :
         /\ booking = [InitBooking EXCEPT !.estimated_fare = fare]
         /\ dispatch = [pc |-> "notify", cands |-> <<>>, i |-> 1,
                        booking |-> [InitBooking EXCEPT !.estimated_fare = fare]]
    /\ requests = [d \in Drivers |-> NoRequest]
    /\ trips = <<>>
    /\ tracker = [pc |-> "idle", booking |-> InitBooking]
    /\ handler = [d \in Drivers |-> IdleHandler]
    /\ tproc = [p \in TripProcs |-> IdleTripProc]
    /\ room = NoRoom
    /\ quote = NoQuote
    /\ tracking = NoTracking
    /\ route = NoRoute
    /\ hist = NoHist

NextNotify ==
    \/ \E outcome \in NotifyOutcomes : send_booking_admin_notification(outcome)
    \/ Next

SpecNotify == InitNotify /\ [][NextNotify]_vars

----------------------------------------------------------------------------
(* A second booking: driver 1 already holds the trip of an earlier booking *)
(* that it accepted, and a new booking is made.  accept and the direct     *)
(* path of book() leave Driver.is_available as it was.                     *)

ActiveStatuses == {"accepted", "arrived", "started"}

\* confirm_payment_and_create_trip, as one step: Driver.objects.get(id=...,
\* is_available=True, is_verified=True) or a 400; Trip.objects.create with
\* the posted fare and status accepted (Trip.save raises for a fare of 0);
\* driver.is_available = False; driver.save(update_fields=['is_available'])
confirm_payment_and_create_trip(d, fare) ==
    /\ Len(trips) < MaxTrips
    /\ LET t == [NoTrip EXCEPT !.driver = d, !.status = "accepted",
                               !.fare = fare]
       IN  IF drivers[d].is_available /\ drivers[d].is_verified /\ ~FareRaises(t)
             THEN /\ trips' = Append(trips, TripSave(t, now))
                  /\ drivers' = [drivers EXCEPT ![d].is_available = FALSE]
             ELSE UNCHANGED <<trips, drivers>>
    /\ UNCHANGED <<now, booking, requests, dispatch, tracker, handler, tproc,
                   room, quote, tracking, route, hist>>

InitFleet ==
    /\ now = 0
    /\ drivers \in {f \in [Drivers -> UNION {DriverProfiles(d) : d \in Drivers}] :
                      \A d \in Drivers : f[d] \in DriverProfiles(d)}
    /\ \E fare \in FareValues :
         /\ booking = [InitBooking EXCEPT !.estimated_fare = fare]
         /\ dispatch = [pc |-> "start", cands |-> <<>>, i |-> 1,
                        booking |-> [InitBooking EXCEPT !.estimated_fare = fare]]
    /\ requests = [d \in Drivers |-> NoRequest]
    /\ \E status \in ActiveStatuses : trips = <<TripInStatus(status, 1850)>>
    /\ tracker = [pc |-> "idle", booking |-> InitBooking]
    /\ handler = [d \in Drivers |-> IdleHandler]
    /\ tproc = [p \in TripProcs |-> IdleTripProc]
    /\ room = NoRoom
    /\ quote = NoQuote
    /\ tracking = NoTracking
    /\ route = NoRoute
    /\ hist = NoHist

NextFleet ==
    \/ search_drivers_for_booking
    \/ book_direct
    \/ \E d \in Drivers : handle_booking_request(d)
    \/ \E d \in Drivers, fare \in FareValues :
          confirm_payment_and_create_trip(d, fare)

SpecFleet == InitFleet /\ [][NextFleet]_vars

----------------------------------------------------------------------------
(* TripTrackingConsumer.receive, a trip_status message, to its end: the    *)
(* update of the trip, then the broadcast to the room of trip 1            *)

\* await self.update_trip_status(status): the permission test, then
\* trip.status = status; trip.save(); receive goes on to its group_send
StatusApply(p) ==
    /\ tproc[p].pc = "loaded"
    /\ tproc[p].op = "status"
    /\ IF /\ StatusPermitted(tproc[p].user, tproc[p].msg)
          /\ ~FareRaises(tproc[p].copy)
         THEN trips' = [trips EXCEPT ![1] =
                  TripSave([tproc[p].copy EXCEPT !.status = tproc[p].msg], now)]
         ELSE trips' = trips
    /\ tproc' = [tproc EXCEPT ![p].pc = "group_send"]
    /\ UNCHANGED <<now, drivers, booking, requests, dispatch, tracker,
                   handler, room, quote, tracking, route, hist>>

\* await self.channel_layer.group_send(room_group_name, {'type':
\* 'status_message', 'status': status, ...}), whatever update_trip_status
\* did; status_message forwards the event to every member of the group
StatusSend(p) ==
    /\ tproc[p].pc = "group_send"
    /\ tproc[p].op = "status"
    /\ room' = [room EXCEPT !.status_message = tproc[p].msg]
    /\ tproc' = [tproc EXCEPT ![p] = DoneTripProc]
    /\ UNCHANGED <<now, drivers, booking, requests, trips, dispatch,
                   tracker, handler, quote, tracking, route, hist>>

receive_trip_status(p) ==
    \/ \E user \in Participants, msg \in MessageStatuses :
          StatusLoad(p, user, msg)
    \/ StatusApply(p)
    \/ StatusSend(p)

NextCast ==
    \/ Tick
    \/ \E p \in TripProcs : receive_trip_status(p)

SpecCast == InitTrip /\ [][NextCast]_vars

----------------------------------------------------------------------------
(* Claims on the matching layer *)

Accepted == {d \in Drivers : requests[d].status = "accepted"}

\* C1: in every reachable state at most one BookingRequest of the booking
\* has status accepted, whatever the interleaving of the drivers' accept
\* calls (each made on a request fetched while it was sent).
C1_AtMostOneAccepted == Cardinality(Accepted) <= 1

WithRequest == {d \in Drivers : requests[d].status # "none"}

\* C2: when every request of the booking has been answered by an accept
\* call of its driver and all the calls have returned, exactly one call has
\* returned true and every other request is expired.
C2_ExactlyOneAcceptSucceeds ==
    ( /\ dispatch.pc = "done"
      /\ WithRequest # {}
      /\ \A d \in WithRequest :
            handler[d].op = "accept" /\ handler[d].pc = "done" )
    => \E w \in WithRequest :
          /\ handler[w].ret = "true"
          /\ \A d \in WithRequest \ {w} :
                /\ handler[d].ret = "false"
                /\ requests[d].status = "expired"

\* C3: at most one Trip is ever created from the booking.
C3_AtMostOneTrip == Len(trips) <= 1

\* C4: a step of accept() entered while the stored status of its request
\* was not sent changes no request, not the booking, creates no trip, and
\* the call ends by returning false.
C4_AcceptNotSentIsNoop ==
    [][\A d \in Drivers :
          (accept(d) /\ hist'.stored[d] # "sent")
          => /\ UNCHANGED <<requests, booking, trips, tracking, route>>
             /\ handler'[d].pc \in {"done"}
             /\ handler'[d].ret = "false"]_vars

\* C5: an accept that ran alone on a request it found sent has returned
\* true; its request is accepted with responded_at set, the booking is
\* accepted, exactly one trip was added, accepted and assigned to that
\* driver; the siblings that were sent are expired and the others kept
\* their status.
C5_SingleAcceptEffect ==
    \A d \in Drivers :
       ( /\ hist.who = d
         /\ hist.snap[d].status = "sent"
         /\ handler[d].op = "accept"
         /\ handler[d].pc \in {"done", "raised"} )
       => /\ handler[d].ret = "true"
          /\ requests[d].status = "accepted"
          /\ requests[d].responded_at # NULL
          /\ booking.status = "accepted"
          /\ Len(trips) = hist.ntrips + 1
          /\ trips[Len(trips)].status = "accepted"
          /\ trips[Len(trips)].driver = d
          /\ \A e \in Drivers \ {d} :
                requests[e].status =
                   IF hist.snap[e].status = "sent" THEN "expired"
                   ELSE hist.snap[e].status

\* C6: reject entered on a stored sent request makes it rejected, stamps
\* responded_at and returns true; entered on a request that is not sent it
\* returns false and changes nothing; in both cases the siblings, the
\* booking and the trips are unchanged.
C6_RejectContract ==
    [][\A d \in Drivers :
          reject(d)
          => /\ IF hist'.stored[d] = "sent"
                  THEN /\ requests'[d].status = "rejected"
                   /\ requests'[d].responded_at = now
                   /\ handler'[d].ret = "true"
                  ELSE /\ requests'[d] = requests[d]
                   /\ handler'[d].ret = "false"
             /\ \A e \in Drivers \ {d} : requests'[e] = requests[e]
             /\ UNCHANGED <<booking, trips, tracking, route>>]_vars

\* C10: a booking whose stored status is completed, cancelled or expired
\* keeps that status in every step.
C10_TerminalBookingStable ==
    [][booking.status \in {"completed", "cancelled", "expired"}
          => booking'.status = booking.status]_vars

\* C11: whenever the booking's stored status changes to expired, it was
\* pending or searching just before and the current time is later than its
\* expires_at; an accepted (or later) booking is never expired.
C11_ExpireOnlyFromPendingPastTTL ==
    [][(booking.status # "expired" /\ booking'.status = "expired")
          => /\ booking.status \in {"pending", "searching"}
             /\ now > booking.expires_at]_vars

\* C12: a booking that is pending or searching after its expires_at
\* eventually reaches status expired.
C12_StaleBookingExpires ==
    (booking.status \in {"pending", "searching"} /\ now > booking.expires_at)
        ~> (booking.status = "expired")

\* C13: a request that is sent after its expires_at eventually reaches
\* status expired.
C13_StaleRequestExpires ==
    \A d \in Drivers :
       (requests[d].status = "sent" /\ now > requests[d].expires_at)
           ~> (requests[d].status = "expired")

\* C14: the booking never has more than one BookingRequest row for the
\* same driver, whether the rows were inserted by the dispatcher or by the
\* direct driver-selection path of book().
C14_OneRequestPerDriver ==
    \A d \in Drivers : hist.inserted[d] <= 1

\* the dispatcher has inserted a row for two drivers and returned
C14_Witness ==
    /\ dispatch.pc = "done"
    /\ Cardinality({d \in Drivers : hist.inserted[d] = 1
                                      /\ requests[d].status # "none"}) >= 2

CandidateSet == {dispatch.cands[k] : k \in 1..Len(dispatch.cands)}

\* C15: each step of the dispatcher's loop inserts one request, for the
\* next candidate, with status sent and expires_at two minutes later, and
\* touches no other request; when the dispatcher saves the booking, every
\* candidate has exactly one request and no other driver has one, and the
\* stored status is searching if there is a candidate, pending if not.
C15_DispatchContract ==
    [][/\ (dispatch.pc = "create" /\ dispatch'.i = dispatch.i + 1)
          => LET d == dispatch.cands[dispatch.i] IN
               /\ requests[d].status = "none"
               /\ requests'[d] = [status |-> "sent", responded_at |-> NULL,
                                  expires_at |-> now + 2]
               /\ \A e \in Drivers \ {d} : requests'[e] = requests[e]
               /\ hist'.inserted[d] = 1
       /\ (dispatch.pc = "create" /\ dispatch'.pc = "done")
          => /\ \A d \in Drivers :
                   hist.inserted[d] = IF d \in CandidateSet THEN 1 ELSE 0
             /\ Len(dispatch.cands) = Cardinality(CandidateSet)
             /\ booking'.status = "searching" <=> Len(dispatch.cands) >= 1
             /\ booking'.status = "pending" <=> Len(dispatch.cands) = 0
      ]_vars

\* the dispatcher has returned after creating requests, none answered yet
C15_Witness ==
    /\ dispatch.pc = "done"
    /\ Len(dispatch.cands) >= 2
    /\ booking.status = "searching"
    /\ \A d \in CandidateSet :
          requests[d].status = "sent" /\ requests[d].expires_at = now + 2

\* the drivers the claim calls candidates: available, verified, of the
\* booking's vehicle type, located, and strictly inside 10 km
Qualified ==
    {d \in DOMAIN drivers :
        /\ drivers[d].is_available
        /\ drivers[d].is_verified
        /\ drivers[d].vehicle_type = dispatch.booking.vehicle_type
        /\ drivers[d].has_location
        /\ drivers[d].distance < 10000}

\* C16: the candidate list holds only qualified drivers, each once, in
\* ascending order of distance; it holds all of them when they are at most
\* 10, and otherwise 10 of them none of which is farther than a qualified
\* driver left out; with no qualified driver it is empty.  For drivers at
\* 2 km, 8 km and 15 km it is the first two in that order.
C16_LocatorResult ==
    dispatch.pc = "create" =>
      LET c == dispatch.cands IN
        /\ \A k \in 1..Len(c) : c[k] \in Qualified
        /\ \A j, k \in 1..Len(c) :
              j < k => /\ c[j] # c[k]
                       /\ drivers[c[j]].distance <= drivers[c[k]].distance
        /\ Len(c) = IF Cardinality(Qualified) <= 10
                      THEN Cardinality(Qualified) ELSE 10
        /\ \A d \in Qualified \ CandidateSet : \A k \in 1..Len(c) :
              drivers[c[k]].distance <= drivers[d].distance
        /\ Qualified = {} => c = <<>>
        /\ \A a, b, f \in DOMAIN drivers :
              ( /\ DOMAIN drivers = {a, b, f}
                /\ drivers[a] = EligibleRow(2000)
                /\ drivers[b] = EligibleRow(8000)
                /\ drivers[f] = EligibleRow(15000) )
              => c = <<a, b>>

\* the locator has answered for drivers at 8 km, 15 km and 2 km
C16_Witness ==
    /\ dispatch.pc = "create"
    /\ drivers = <<EligibleRow(8000), EligibleRow(15000), EligibleRow(2000)>>
    /\ dispatch.cands = <<3, 1>>

----------------------------------------------------------------------------
(* Claims on the fare estimate *)

\* base_price + price_per_km * distance + price_per_minute * duration, less
\* 30% when shared, in units of 0.00001
ExactFare ==
    ( quote.vehicle_type.base_price * 100
        + quote.vehicle_type.price_per_km * quote.distance
        + quote.vehicle_type.price_per_minute * quote.duration * 100 )
    * (IF quote.is_shared THEN 7 ELSE 10)

AbsDiff(a, b) == IF a >= b THEN a - b ELSE b - a

\* C17: the estimate is the hundredth nearest to base_price + price_per_km
\* * distance + price_per_minute * duration, reduced by 30% when shared;
\* for base 1000, per-km 250, per-minute 50, 5.0 km and 15 minutes it is
\* 3000.00 unshared and 2100.00 shared.
C17_EstimateFare ==
    quote.fare # NULL =>
       /\ 2 * AbsDiff(quote.fare * 1000, ExactFare) <= 1000
       /\ ( /\ quote.vehicle_type = [base_price |-> 100000,
                                     price_per_km |-> 25000,
                                     price_per_minute |-> 5000]
            /\ quote.distance = 500
            /\ quote.duration = 15 )
          => quote.fare = IF quote.is_shared THEN 210000 ELSE 300000

\* the shared example of the claim has been estimated
C17_Witness ==
    /\ quote.vehicle_type = [base_price |-> 100000, price_per_km |-> 25000,
                             price_per_minute |-> 5000]
    /\ quote.distance = 500
    /\ quote.duration = 15
    /\ quote.is_shared
    /\ quote.fare = 210000

----------------------------------------------------------------------------
(* Claims on the tracking room *)

\* the connection is from the passenger or the assigned driver of an
\* existing trip
Entitled(c) ==
    /\ room.conn[c].trip_id \in 1..Len(trips)
    /\ room.conn[c].user \in {"passenger", "driver"}

\* C19: a connection that is accepted, or that is a member of a trip's
\* group, is to that trip's room, the trip exists and the user is its
\* passenger or its assigned driver; an accepted connection is in the group
\* of its trip; a connection of anyone else is never accepted and never in
\* any group.
C19_RoomMembership ==
    \A c \in Conns :
       /\ \A t \in TripIds :
             c \in room.group[t] => room.conn[c].trip_id = t /\ Entitled(c)
       /\ room.conn[c].pc = "open"
             => Entitled(c) /\ c \in room.group[room.conn[c].trip_id]
       /\ (room.conn[c].pc # "none" /\ ~Entitled(c))
             => /\ room.conn[c].pc # "open"
                /\ \A t \in TripIds : c \notin room.group[t]

\* the passenger is connected to the room of trip 1 while a connection of
\* another driver to the same room has been closed
C19_Witness ==
    \E c, e \in Conns :
       /\ room.conn[c] = [pc |-> "open", user |-> "passenger", trip_id |-> 1]
       /\ room.conn[e] = [pc |-> "closed", user |-> "other_driver",
                          trip_id |-> 1]
       /\ room.group[1] = {c}

----------------------------------------------------------------------------
(* Claims on the trip lifecycle *)

\* C7: a trip enters status cancelled only from pending or accepted,
\* whichever handler makes the change.
C7_CancelOnlyFromPendingOrAccepted ==
    [][\A i \in 1..Len(trips) :
          (trips[i].status # "cancelled" /\ trips'[i].status = "cancelled")
          => trips[i].status \in {"pending", "accepted"}]_vars

TripEdges ==
    {<<"pending", "accepted">>, <<"accepted", "arrived">>,
     <<"arrived", "started">>, <<"started", "completed">>,
     <<"pending", "cancelled">>, <<"accepted", "cancelled">>,
     <<"accepted", "no_show">>}

\* C8: every change of a trip's status follows an edge of the trip state
\* machine; in particular completed, cancelled and no_show are never left.
C8_StatusFollowsEdges ==
    [][\A i \in 1..Len(trips) :
          trips'[i].status # trips[i].status
          => <<trips[i].status, trips'[i].status>> \in TripEdges]_vars

\* C9: a timestamp of a trip that is set is never changed by any step.
C9_TimestampsWriteOnce ==
    [][\A i \in 1..Len(trips) :
          /\ trips[i].accepted_at # NULL
                => trips'[i].accepted_at = trips[i].accepted_at
          /\ trips[i].arrived_at # NULL
                => trips'[i].arrived_at = trips[i].arrived_at
          /\ trips[i].started_at # NULL
                => trips'[i].started_at = trips[i].started_at
          /\ trips[i].completed_at # NULL
                => trips'[i].completed_at = trips[i].completed_at
          /\ trips[i].cancelled_at # NULL
                => trips'[i].cancelled_at = trips[i].cancelled_at]_vars

\* C18: can_be_cancelled is true of a trip exactly when its status is
\* pending or accepted, false for arrived, started, completed, cancelled
\* and no_show; cancel_trip goes on to cancel the trip in the first case
\* and refuses in the second.
C18_CanBeCancelled ==
    [][/\ \A i \in 1..Len(trips) :
             /\ trips[i].status \in {"pending", "accepted"}
                   => can_be_cancelled(trips[i])
             /\ trips[i].status \in {"arrived", "started", "completed",
                                      "cancelled", "no_show"}
                   => ~can_be_cancelled(trips[i])
       /\ \A p \in TripProcs :
             /\ (tproc[p].pc = "idle" /\ tproc'[p].pc = "done")
                   => trips[1].status \notin {"pending", "accepted"}
             /\ (tproc[p].pc = "idle" /\ tproc'[p].pc = "loaded"
                                      /\ tproc'[p].op = "cancel")
                   => trips[1].status \in {"pending", "accepted"}
      ]_vars

\* cancel_trip has passed the guard on a pending trip
C18_Witness ==
    \E p \in TripProcs :
       /\ tproc[p].pc = "loaded"
       /\ tproc[p].op = "cancel"
       /\ tproc[p].copy.status = "pending"
       /\ \A q \in TripProcs \ {p} : tproc[q].pc = "idle"

\* C20: a trip_status message changes the stored status only to the status
\* it carries, to arrived, started or completed only when sent by the
\* assigned driver and to cancelled only when sent by the passenger; a
\* message of any other sender, or carrying any other status, leaves the
\* stored status unchanged.
C20_StatusByRole ==
    [][\A p \in TripProcs :
          (tproc[p].pc = "loaded" /\ tproc[p].op = "status"
                                  /\ tproc'[p].pc = "done")
          => /\ trips'[1].status # trips[1].status
                  => /\ trips'[1].status = tproc[p].msg
                     /\ trips'[1].status \in {"arrived", "started",
                                               "completed", "cancelled"}
                     /\ trips'[1].status \in {"arrived", "started",
                                               "completed"}
                           => tproc[p].user = "driver"
                     /\ trips'[1].status = "cancelled"
                           => tproc[p].user = "passenger"
             /\ ( /\ ~ ( /\ tproc[p].user = "driver"
                          /\ tproc[p].msg \in {"arrived", "started",
                                                "completed"} )
                  /\ ~ ( /\ tproc[p].user = "passenger"
                          /\ tproc[p].msg = "cancelled" ) )
                => trips'[1].status = trips[1].status]_vars

\* a started message of the driver has been applied
C20_Witness ==
    /\ trips[1].status = "started"
    /\ trips[1].started_at # NULL
    /\ \E p \in TripProcs : tproc[p].pc = "done"

----------------------------------------------------------------------------
(* Claims on positions *)

\* C21: every location_update sent on the tracking channel by the trip's
\* assigned driver sets the trip's current_location to the received position
\* and appends exactly one entry stamped with the server's time to the
\* trip's position history; a location_update from anyone else changes
\* neither.
C21_LocationUpdate ==
    [][\A p \in TripProcs :
         (/\ tproc[p].pc = "loaded"
          /\ tproc[p].op = "location"
          /\ tproc'[p].pc = "group_send")
         => IF tproc[p].user = "driver"
              THEN /\ tracking'.current_location = tproc[p].msg
                   /\ tracking'.driver_positions =
                          Append(tracking.driver_positions,
                                 [pos |-> tproc[p].msg, timestamp |-> now])
              ELSE /\ tracking'.current_location = tracking.current_location
                   /\ tracking'.driver_positions = tracking.driver_positions
      ]_vars

----------------------------------------------------------------------------
(* Claims on calculate_route *)

\* C22: calculate_route never propagates a failure of the mapping provider
\* (an exception of the request, a top-level or element status other than
\* OK, a malformed response): the call returns exactly the value of
\* calculate_route_haversine on the same coordinates, and nothing else of
\* the state has changed.
C22_FallbackOnFailure ==
    /\ route.pc # "raised"
    /\ (route.pc = "done" /\ route.key /\ route.provider \in ProviderFailures)
         => /\ route.result = calculate_route_haversine(route.metres)
            /\ booking = InitBooking
            /\ trips = <<>>
            /\ requests = [d \in Drivers |-> NoRequest]
            /\ tracking = NoTracking

C22_Witness ==
    /\ route.pc = "done"
    /\ route.key
    /\ route.provider = "malformed"
    /\ route.metres = 12342
    /\ route.result = [distance |-> 1234, duration |-> 26]

\* C23: calculate_route always terminates: when the mapping service never
\* answers, the call is abandoned and the haversine fallback is returned.
C23_RouteTerminates ==
    (route.pc = "requests_get")
        ~> (route.pc = "done"
            /\ (route.provider = "no_answer"
                  => route.result = calculate_route_haversine(route.metres)))

----------------------------------------------------------------------------
(* Claims on the fare of a trip *)

\* C24: for every value of the booking's estimated_fare, 0 included,
\* convert_to_trip creates a Trip whose fare is that estimated_fare, and no
\* later save or status transition changes the fare of a trip.
C24_FareIsEstimatedFare ==
    [][/\ \A d \in Drivers :
            (handler[d].pc = "saved" /\ handler'[d].pc # "saved")
            => /\ Len(trips') = Len(trips) + 1
               /\ trips'[Len(trips')].driver = d
               /\ trips'[Len(trips')].fare = booking.estimated_fare
       /\ \A i \in 1..Len(trips) : trips'[i].fare = trips[i].fare
      ]_vars

----------------------------------------------------------------------------
(* Claims on the notification of a new booking *)

\* C25: whatever happens to the notification sent when a booking is
\* created, an exception while it is built or sent included, book() ends
\* with the booking saved and dispatched as when the notification
\* succeeds: every qualified driver has received its request, no other
\* driver has, and the booking was saved searching or pending accordingly.
C25_NotificationFailureHarmless ==
    [][(dispatch.pc # "done" /\ dispatch'.pc = "done")
         => /\ \A d \in Drivers :
                  hist'.inserted[d] = IF d \in Qualified THEN 1 ELSE 0
            /\ dispatch'.booking.status =
                  IF Qualified # {} THEN "searching" ELSE "pending"
      ]_vars

----------------------------------------------------------------------------
(* Claims on the status of a request *)

\* C26: a request's status moves only from sent to accepted, rejected or
\* expired, and a request that is accepted, rejected or expired never
\* changes status again, under any interleaving of the handlers.
C26_RequestStatusMonotonic ==
    [][\A d \in Drivers :
         /\ requests[d].status = "sent"
              => requests'[d].status \in
                     {"sent", "accepted", "rejected", "expired"}
         /\ requests[d].status \in {"accepted", "rejected", "expired"}
              => requests'[d].status = requests[d].status
      ]_vars

----------------------------------------------------------------------------
(* Claims on the assignment of drivers *)

\* C27: at every time each driver is assigned to at most one active trip
\* (accepted, arrived or started), whatever acceptances and direct
\* selections occur across different bookings.
C27_OneActiveTripPerDriver ==
    \A d \in Drivers :
        Cardinality({i \in 1..Len(trips) :
                        /\ trips[i].driver = d
                        /\ trips[i].status \in ActiveStatuses}) <= 1

----------------------------------------------------------------------------
(* Claims on an accepted booking *)

\* C28: once the stored status of a booking is accepted it never goes back
\* to searching or pending, in particular when a driver's accept
\* interleaves with the dispatcher that is still creating requests.
C28_AcceptedNeverReopens ==
    [][booking.status = "accepted"
         => booking'.status \notin {"searching", "pending"}]_vars

\* C29: accept leaves no partial effect when the creation of the trip
\* fails: once a driver's accept call has ended, its request is accepted
\* only if the booking is accepted and a trip of that driver exists.
C29_NoPartialAccept ==
    \A d \in Drivers :
        (/\ handler[d].op = "accept"
         /\ handler[d].pc \in {"done", "raised"}
         /\ requests[d].status = "accepted")
        => /\ booking.status = "accepted"
           /\ \E i \in 1..Len(trips) : trips[i].driver = d

----------------------------------------------------------------------------
(* Claims on the broadcast of status events *)

\* C30: every status event broadcast to the room of a trip reports a
\* status that was applied to the trip: a message update_trip_status did
\* not apply (sender not authorised for that status, or status not
\* allowed) is not broadcast, and the status broadcast is the stored
\* status of the trip.
C30_BroadcastIsApplied ==
    [][\A p \in TripProcs :
         (/\ tproc[p].pc = "group_send"
          /\ tproc[p].op = "status"
          /\ tproc'[p].pc = "done")
         => /\ StatusPermitted(tproc[p].user, tproc[p].msg)
            /\ room'.status_message = trips'[1].status
      ]_vars

====
